---- MODULE Spec2Model ----
(***************************************************************************)
(* Model of src/main.py: PDFExtractor (extract_text_from_pdf,              *)
(* extract_field_with_regex, process_pdf, process_directory), the          *)
(* environment check and the module-level script.                          *)
(*                                                                         *)
(* A text is a sequence of characters (one-character strings).  The six    *)
(* labels the patterns look for ("Oficio Nro.", "Memorando Nro.",          *)
(* "Asunto:", "ASUNTO:", "Referencias:", "Anexos:") are each one symbol    *)
(* of the sequence: a pattern matches a label only as a whole, and a       *)
(* label is neither \s nor a run that \w+ can match between two \s+.       *)
(* Whitespace is the space and the newline.                                *)
(***************************************************************************)
EXTENDS Integers, Sequences, FiniteSets, TLC

----------------------------------------------------------------------------
(* Characters and character classes of Python's re module *)

NL == "\n"
SP == " "

\* \s
IsSpace(c) == c \in {SP, NL}

\* \d
IsDigit(c) == c \in {"0", "1", "2", "3", "4", "5", "6", "7", "8", "9"}

LowerAlpha ==
  <<"a", "b", "c", "d", "e", "f", "g", "h", "i", "j", "k", "l", "m",
    "n", "o", "p", "q", "r", "s", "t", "u", "v", "w", "x", "y", "z">>

UpperAlpha ==
  <<"A", "B", "C", "D", "E", "F", "G", "H", "I", "J", "K", "L", "M",
    "N", "O", "P", "Q", "R", "S", "T", "U", "V", "W", "X", "Y", "Z">>

IsLetter(c) == \E k \in 1..26 : c = LowerAlpha[k] \/ c = UpperAlpha[k]

\* \w
IsWord(c) == IsDigit(c) \/ IsLetter(c) \/ c = "_"

\* str.lower() of one character
LowerChar(c) ==
  IF \E k \in 1..26 : c = UpperAlpha[k]
  THEN LowerAlpha[CHOOSE k \in 1..26 : c = UpperAlpha[k]]
  ELSE c

\* str.lower()
Lower(s) == [k \in 1..Len(s) |-> LowerChar(s[k])]

\* s[a..b] (1-based, inclusive), empty when b < a
Slice(s, a, b) == IF b < a THEN <<>> ELSE SubSeq(s, a, b)

\* str.strip()
LStripFrom(s) ==
  IF \E k \in 1..Len(s) : ~IsSpace(s[k])
  THEN CHOOSE k \in 1..Len(s) : ~IsSpace(s[k]) /\ \A j \in 1..(k-1) : IsSpace(s[j])
  ELSE Len(s) + 1

RStripTo(s) ==
  IF \E k \in 1..Len(s) : ~IsSpace(s[k])
  THEN CHOOSE k \in 1..Len(s) : ~IsSpace(s[k]) /\ \A j \in (k+1)..Len(s) : IsSpace(s[j])
  ELSE 0

Strip(s) == Slice(s, LStripFrom(s), RStripTo(s))

\* the first index >= p that holds a newline, Len(s)+1 when there is none
NextNL(s, p) ==
  IF \E j \in p..Len(s) : s[j] = NL
  THEN CHOOSE j \in p..Len(s) : s[j] = NL /\ \A i \in p..(j-1) : s[i] # NL
  ELSE Len(s) + 1

\* greedy \s* from p: the first index >= p that holds no whitespace
SkipSpace(s, p) ==
  IF \E j \in p..Len(s) : ~IsSpace(s[j])
  THEN CHOOSE j \in p..Len(s) : ~IsSpace(s[j]) /\ \A i \in p..(j-1) : IsSpace(s[i])
  ELSE Len(s) + 1

\* the least element of a non-empty set of integers
Least(S) == CHOOSE x \in S : \A y \in S : x <= y

\* the greatest element of a non-empty set of integers
Greatest(S) == CHOOSE x \in S : \A y \in S : x >= y


\* s[k], or "" (a character of no class) outside the text
At(s, k) == IF k \in 1..Len(s) THEN s[k] ELSE ""

\* the first index >= p that holds no \w character
SkipWord(s, p) ==
  IF \E j \in p..Len(s) : ~IsWord(s[j])
  THEN CHOOSE j \in p..Len(s) : ~IsWord(s[j]) /\ \A i \in p..(j-1) : IsWord(s[i])
  ELSE Len(s) + 1

\* the first index >= p that holds no \d character
SkipDigit(s, p) ==
  IF \E j \in p..Len(s) : ~IsDigit(s[j])
  THEN CHOOSE j \in p..Len(s) : ~IsDigit(s[j]) /\ \A i \in p..(j-1) : IsDigit(s[i])
  ELSE Len(s) + 1

----------------------------------------------------------------------------
(* The labels and the sentinels of process_pdf *)

OficioNro == "Oficio Nro."
MemorandoNro == "Memorando Nro."
AsuntoLabel == "Asunto:"
ASUNTOLabel == "ASUNTO:"
ReferenciasLabel == "Referencias:"
AnexosLabel == "Anexos:"

NameLabels == {OficioNro, MemorandoNro}
SubjectLabels == {AsuntoLabel, ASUNTOLabel}

\* the strings the code puts in a field whose rule found nothing; each is one
\* symbol, which no text holds
NoEncontrado == <<"No encontrado">>
NoEncontrada == <<"No encontrada">>
NoEncontradas == <<"No encontradas">>

\* re.search found nothing
NoMatch == <<"<None>">>

----------------------------------------------------------------------------
(* (?:label) \s* (.+?) \n  -- the name and the subject patterns *)

\* Where group 1 can start for the label at p: \s* is greedy and gives
\* whitespace back one character at a time, (.+?) needs one character that is
\* no newline and then runs lazily to the first newline, which must exist.
LabelLineStarts(text, p) ==
  { s \in (p+1)..SkipSpace(text, p+1) :
      /\ s <= Len(text)
      /\ text[s] # NL
      /\ NextNL(text, s+1) <= Len(text) }

\* mutant of lines 57 and 70: group 1 is greedy and crosses the lines, up to
\* the last newline of the text
LabelLineSearch_ToLastLine(text, labels) ==
  LET ps == { p \in 1..Len(text) :
                text[p] \in labels /\ LabelLineStarts(text, p) # {} }
  IN  IF ps = {} THEN NoMatch
      ELSE LET p == Least(ps)
               s == Greatest(LabelLineStarts(text, p))
           IN  Slice(text, s,
                     Greatest({ j \in (s+1)..Len(text) : text[j] = NL }) - 1)

\* group(1) of the leftmost match of the pattern, or NoMatch
LabelLineSearch(text, labels) ==
  LET ps == { p \in 1..Len(text) :
                text[p] \in labels /\ LabelLineStarts(text, p) # {} }
  IN  IF ps = {} THEN NoMatch
      ELSE LET p == Least(ps)
               s == Greatest(LabelLineStarts(text, p))
           IN  Slice(text, s, NextNL(text, s+1) - 1)

----------------------------------------------------------------------------
(* (\d{1,2}\s+de\s+\w+\s+de\s+\d{4})  -- the date pattern *)

\* \s+ "de" \s+ from a: the index after it, 0 when it does not match
DeAfter(text, a) ==
  LET b == SkipSpace(text, a)
      c == b + 2
  IN  IF /\ IsSpace(At(text, a))
         /\ At(text, b) = "d" /\ At(text, b+1) = "e"
         /\ IsSpace(At(text, c))
      THEN SkipSpace(text, c) ELSE 0

\* The last index of the match that starts at p, 0 when there is none.
\* \d{1,2} takes two digits when two are there (one digit then fails on \s+),
\* every \s+ and the \w+ are followed by a character outside their class, so
\* each takes its whole run.
DateMatchEnd(text, p) ==
  LET dl == IF IsDigit(At(text, p+1)) THEN 2 ELSE 1
      d  == DeAfter(text, p + dl)
      e  == SkipWord(text, d)
      h  == DeAfter(text, e)
  IN  IF ~IsDigit(At(text, p)) THEN 0
      ELSE IF d = 0 \/ ~IsWord(At(text, d)) THEN 0
      ELSE IF h = 0 THEN 0
      ELSE IF \A k \in h..(h+3) : IsDigit(At(text, k)) THEN h + 3 ELSE 0

\* group(1) of the leftmost match, or NoMatch
DateSearch(text) ==
  LET ps == { p \in 1..Len(text) : DateMatchEnd(text, p) # 0 }
  IN  IF ps = {} THEN NoMatch
      ELSE Slice(text, Least(ps), DateMatchEnd(text, Least(ps)))

\* re.findall(r"\d+|\w+", s) from index k on
RECURSIVE FindallParts(_, _)
FindallParts(s, k) ==
  IF k > Len(s) THEN <<>>
  ELSE IF ~IsWord(s[k]) THEN FindallParts(s, k + 1)
  ELSE LET e == IF IsDigit(s[k]) THEN SkipDigit(s, k) ELSE SkipWord(s, k)
       IN  <<Slice(s, k, e - 1)>> \o FindallParts(s, e)

\* the months dictionary
months ==
     (<<"e", "n", "e", "r", "o">> :> <<"0", "1">>)
  @@ (<<"f", "e", "b", "r", "e", "r", "o">> :> <<"0", "2">>)
  @@ (<<"m", "a", "r", "z", "o">> :> <<"0", "3">>)
  @@ (<<"a", "b", "r", "i", "l">> :> <<"0", "4">>)
  @@ (<<"m", "a", "y", "o">> :> <<"0", "5">>)
  @@ (<<"j", "u", "n", "i", "o">> :> <<"0", "6">>)
  @@ (<<"j", "u", "l", "i", "o">> :> <<"0", "7">>)
  @@ (<<"a", "g", "o", "s", "t", "o">> :> <<"0", "8">>)
  @@ (<<"s", "e", "p", "t", "i", "e", "m", "b", "r", "e">> :> <<"0", "9">>)
  @@ (<<"o", "c", "t", "u", "b", "r", "e">> :> <<"1", "0">>)
  @@ (<<"n", "o", "v", "i", "e", "m", "b", "r", "e">> :> <<"1", "1">>)
  @@ (<<"d", "i", "c", "i", "e", "m", "b", "r", "e">> :> <<"1", "2">>)

----------------------------------------------------------------------------
(* extract_field_with_regex *)

NamePattern == "(?:Oficio|Memorando) Nro\\.\\s*(.+?)\\n"
DatePattern == "(\\d{1,2}\\s+de\\s+\\w+\\s+de\\s+\\d{4})"
SubjectPattern == "(?:Asunto:|ASUNTO:)\\s*(.+?)\\n"

\* re.search(pattern, text), group 1
ReSearch(pattern, text) ==
  CASE pattern = NamePattern -> LabelLineSearch(text, NameLabels)
    [] pattern = DatePattern -> DateSearch(text)
    [] pattern = SubjectPattern -> LabelLineSearch(text, SubjectLabels)


extract_field_with_regex(text, pattern) ==
  LET match == ReSearch(pattern, text)
  IN  IF match # NoMatch THEN Strip(match) ELSE NoEncontrado

----------------------------------------------------------------------------
(* process_pdf: the date *)

\* date_parts of lines 62-66
DateParts(date_match) == FindallParts(date_match, 1)

\* months[date_parts[2].lower()] raises KeyError
DateRaises(date_match) ==
  date_match # NoEncontrado /\ Lower(DateParts(date_match)[3]) \notin DOMAIN months

\* lines 61-68, when the lookup finds the month
DateField(date_match) ==
  IF date_match # NoEncontrado
  THEN LET date_parts == DateParts(date_match)
       IN  date_parts[1] \o <<"-">> \o months[Lower(date_parts[3])] \o <<"-">>
             \o date_parts[5]
  ELSE NoEncontrada

----------------------------------------------------------------------------
(* process_pdf: the references *)

\* the first index >= k where "- " starts, 0 when there is none
DashSpaceAt(s, k) ==
  LET js == { j \in k..(Len(s) - 1) : s[j] = "-" /\ s[j+1] = SP }
  IN  IF js = {} THEN 0 ELSE Least(js)

\* s.split("- ") from index k on
RECURSIVE SplitDashSpace(_, _)
SplitDashSpace(s, k) ==
  LET j == DashSpaceAt(s, k)
  IN  IF j = 0 THEN <<Slice(s, k, Len(s))>>
      ELSE <<Slice(s, k, j - 1)>> \o SplitDashSpace(s, j + 2)

\* ", ".join(parts)
RECURSIVE JoinComma(_)
JoinComma(parts) ==
  IF parts = <<>> THEN <<>>
  ELSE IF Len(parts) = 1 THEN parts[1]
  ELSE parts[1] \o <<",", SP>> \o JoinComma(Tail(parts))

\* mutant of line 76 without its filter: the empty pieces are kept
StripNonEmpty_KeepEmpty(xs) == [k \in 1..Len(xs) |-> Strip(xs[k])]

\* [x.strip() for x in xs if x.strip()]
RECURSIVE StripNonEmpty(_)
StripNonEmpty(xs) ==
  IF xs = <<>> THEN <<>>
  ELSE IF Strip(Head(xs)) # <<>>
       THEN <<Strip(Head(xs))>> \o StripNonEmpty(Tail(xs))
       ELSE StripNonEmpty(Tail(xs))

\* re.search(r"Referencias:\s*(.*?)(?:\n|$)", text, re.DOTALL), group 1:
\* the leftmost label, all the whitespace after it, then up to the first
\* newline or the end (this always matches at the leftmost label)
ReferencesSearch(text) ==
  LET ps == { p \in 1..Len(text) : text[p] = ReferenciasLabel }
  IN  IF ps = {} THEN NoMatch
      ELSE LET e == SkipSpace(text, Least(ps) + 1)
           IN  Slice(text, e, NextNL(text, e) - 1)

\* lines 72-77
ReferencesField(text) ==
  LET references_match == ReferencesSearch(text)
      references == IF references_match # NoMatch
                    THEN StripNonEmpty(SplitDashSpace(references_match, 1))
                    ELSE <<>>
  IN  IF references # <<>> THEN JoinComma(references) ELSE NoEncontradas

----------------------------------------------------------------------------
(* process_pdf: the annexes *)

\* Where (?:\n\n|$) can match at or after e: before two newlines, before the
\* newline that ends the text, at the end of the text
SectionEnds(text, e) ==
  { j \in e..(Len(text) + 1) :
      \/ j = Len(text) + 1
      \/ (j = Len(text) /\ text[j] = NL)
      \/ (text[j] = NL /\ At(text, j + 1) = NL) }

\* mutant of line 80 without re.DOTALL: the section ends with its first line
AnnexesSectionSearch_OneLine(text) ==
  LET ps == { p \in 1..Len(text) : text[p] = AnexosLabel }
  IN  IF ps = {} THEN NoMatch
      ELSE LET e == SkipSpace(text, Least(ps) + 1)
           IN  Slice(text, e, NextNL(text, e) - 1)

\* re.search(r"Anexos:\s*(.*?)(?:\n\n|$)", text, re.DOTALL), group 1:
\* the leftmost label, all the whitespace after it, then lazily to the first
\* place the end alternative matches
AnnexesSectionSearch(text) ==
  LET ps == { p \in 1..Len(text) : text[p] = AnexosLabel }
  IN  IF ps = {} THEN NoMatch
      ELSE LET e == SkipSpace(text, Least(ps) + 1)
           IN  Slice(text, e, Least(SectionEnds(text, e)) - 1)

\* Where group 1 of ^-\s*(.+)$ can start for the dash at k: \s* is greedy
\* (newlines included) and gives whitespace back one character at a time,
\* (.+) needs a character that is no newline
AnnexStarts(sec, k) ==
  { s \in (k+1)..SkipSpace(sec, k+1) : s <= Len(sec) /\ sec[s] # NL }

\* re.findall(r"^-\s*(.+)$", sec, re.MULTILINE) from index k on
RECURSIVE FindallAnnexes(_, _)
FindallAnnexes(sec, k) ==
  IF k > Len(sec) THEN <<>>
  ELSE IF /\ sec[k] = "-"
          /\ (k = 1 \/ sec[k-1] = NL)
          /\ AnnexStarts(sec, k) # {}
       THEN LET s == Greatest(AnnexStarts(sec, k))
                eol == NextNL(sec, s)
            IN  <<Slice(sec, s, eol - 1)>> \o FindallAnnexes(sec, eol)
       ELSE FindallAnnexes(sec, k + 1)

\* mutant of lines 80-83: the items are looked for in the whole text
Annexes_WholeText(text) == FindallAnnexes(text, 1)

\* lines 79-83
Annexes(text) ==
  LET annexes_section_match == AnnexesSectionSearch(text)
  IN  IF annexes_section_match # NoMatch
      THEN FindallAnnexes(annexes_section_match, 1)
      ELSE <<>>

----------------------------------------------------------------------------
(* process_pdf and extract_text_from_pdf *)

\* the pages of a file that PdfReader or extract_text raises on (one symbol,
\* which no text holds)
Corrupt == <<"<unreadable>">>

\* extract_text_from_pdf: a file is [name, pages]; pages is the text of its
\* pages joined, or Corrupt when PdfReader or extract_text raises
extract_text_from_pdf(pdf) ==
  IF pdf.pages = Corrupt THEN <<>> ELSE pdf.pages

Row(doc_name, date, subject, annex, references) ==
  [Nombre |-> doc_name, Fecha |-> date, Asunto |-> subject,
   Anexo |-> annex, Referencias |-> references]

\* mutant of lines 95-102: no row when there is no annex
Rows_NoFallback(doc_name, date, subject, annexes, references) ==
  [k \in 1..Len(annexes) |->
     Row(doc_name, date, subject, annexes[k], references)]

\* lines 85-104: one row per annex, or the one row without annex
Rows(doc_name, date, subject, annexes, references) ==
  LET rows == [k \in 1..Len(annexes) |->
                 Row(doc_name, date, subject, annexes[k], references)]
  IN  IF rows = <<>>
      THEN <<Row(doc_name, date, subject, NoEncontrado, references)>>
      ELSE rows

\* lines 53-104 on the text of the file: [raised, rows]; raised is "KeyError"
\* when the months lookup of line 66 raises, and then nothing is returned
ProcessText(text) ==
  IF text = <<>> THEN [raised |-> "none", rows |-> <<>>]
  ELSE LET doc_name == extract_field_with_regex(text, NamePattern)
           date_match == extract_field_with_regex(text, DatePattern)
       IN  IF DateRaises(date_match)
           THEN [raised |-> "KeyError", rows |-> <<>>]
           ELSE [raised |-> "none",
                 rows |-> Rows(doc_name, DateField(date_match),
                               extract_field_with_regex(text, SubjectPattern),
                               Annexes(text), ReferencesField(text))]

\* mutant of lines 28-30: the error of the reader is not caught
process_pdf_Uncaught(pdf) ==
  IF pdf.pages = Corrupt THEN [raised |-> "PdfReadError", rows |-> <<>>]
  ELSE ProcessText(pdf.pages)

process_pdf(pdf) == ProcessText(extract_text_from_pdf(pdf))

----------------------------------------------------------------------------
(* process_directory, verify_environment_variables and the script *)

\* s.endswith(suffix)
EndsWith(s, suffix) ==
  /\ Len(s) >= Len(suffix)
  /\ SubSeq(s, Len(s) - Len(suffix) + 1, Len(s)) = suffix

DotPdf == <<".", "p", "d", "f">>

\* mutant of line 116: the name is compared as it is
IsPdfName_CaseSensitive(filename) == EndsWith(filename, DotPdf)

\* line 116
IsPdfName(filename) == EndsWith(Lower(filename), DotPdf)

required_vars == <<"SERVER_ROUTE", "DOWNLOAD_ROUTE">>

NoError == [type |-> "none", names |-> <<>>]

\* env.str(var): EnvError naming var when it is not set
EnvStrRaises(env, var) == var \notin env

\* verify_environment_variables (lines 155-167): the error it raises, NoError
\* when it returns.  The script never calls it.
verify_environment_variables(env) ==
  LET missing_vars == SelectSeq(required_vars, LAMBDA var : EnvStrRaises(env, var))
  IN  IF missing_vars # <<>>
      THEN [type |-> "EnvironmentError", names |-> missing_vars]
      ELSE NoError

----------------------------------------------------------------------------
(* State *)

VARIABLES
  environ,      \* the names of the environment variables that are set
  pc,           \* where the script is
  directory,    \* line 171
  output_file,  \* line 172
  listing,      \* what os.listdir(directory) gave: files [name, pages]
  idx,          \* the entry of the listing the loop of line 115 is at
  data,         \* line 114
  df,           \* line 176
  error,        \* the exception that ended the script
  written,      \* the rows in the output file
  opened,       \* the names of the files handed to process_pdf, in order
  doc,          \* a file handed to process_pdf on its own
  res,          \* what process_pdf made of doc
  cut,          \* <<first, last>> index of a subject line of doc, or <<0, 0>>
  res2          \* what process_pdf makes of doc without that line

vars == <<environ, pc, directory, output_file, listing, idx, data, df, error,
          written, opened, doc, res, cut, res2>>

scriptVars == <<environ, pc, directory, output_file, listing, idx, data, df,
                error, written, opened>>

docVars == <<doc, res, cut, res2>>

Unset == "<unset>"
NoFile == <<"<no file>">>
NoFrame == <<"<no frame>">>
Pending == [raised |-> "pending", rows |-> <<>>]

----------------------------------------------------------------------------
(* Bounds and inputs of the script *)

MaxFiles == 3

NameLowerPdf == <<"a", ".", "p", "d", "f">>
NameUpperPdf == <<"B", ".", "P", "D", "F">>
NameMixedPdf == <<"c", ".", "P", "d", "f">>
NameTxt == <<"d", ".", "t", "x", "t">>
NameNoDot == <<"p", "d", "f">>

\* two annexes, with name and date
PagesTwoAnnexes ==
  <<OficioNro, SP, "A", NL, "1", "5", SP, "d", "e", SP, "m", "a", "r", "z", "o", SP, "d", "e", SP, "2", "0", "2", "1", NL, AnexosLabel, NL, "-", SP, "a", NL, "-", SP, "b", NL>>

\* a subject and nothing else
PagesSubject == <<AsuntoLabel, SP, "x", NL>>

\* a date whose month the months dictionary does not hold
PagesUnknownMonth == <<"5", SP, "d", "e", SP, "f", "o", "o", SP, "d", "e", SP, "2", "0", "2", "1">>

FilePages == {Corrupt, <<>>, PagesTwoAnnexes, PagesSubject, PagesUnknownMonth}

\* the files a directory can hold: any pages under a name that ends in .pdf in
\* some case, a text file (no PDF: PdfReader raises on it), and a PDF whose
\* name has no dot
Files ==
  { [name |-> n, pages |-> p] :
      n \in {NameLowerPdf, NameUpperPdf, NameMixedPdf}, p \in FilePages }
  \cup { [name |-> NameTxt, pages |-> Corrupt],
         [name |-> NameNoDot, pages |-> PagesSubject] }

\* os.listdir gives each name once
Listings ==
  UNION { { l \in [1..n -> Files] :
              \A i, j \in 1..n : l[i].name = l[j].name => i = j } :
          n \in 0..MaxFiles }

IdleDoc == [name |-> <<>>, pages |-> <<>>]

----------------------------------------------------------------------------
(* The script, lines 170-180 *)

Init ==
  /\ environ \in SUBSET {"SERVER_ROUTE", "DOWNLOAD_ROUTE"}
  /\ pc = "line171"
  /\ directory = Unset
  /\ output_file = Unset
  /\ listing = <<>>
  /\ idx = 0
  /\ data = <<>>
  /\ df = NoFrame
  /\ error = NoError
  /\ written = NoFile
  /\ opened = <<>>
  /\ doc = IdleDoc /\ res = Pending /\ cut = <<0, 0>> /\ res2 = Pending

\* line 171: directory = env.str('SERVER_ROUTE')
ReadServerRoute ==
  /\ pc = "line171"
  /\ IF EnvStrRaises(environ, "SERVER_ROUTE")
     THEN /\ error' = [type |-> "EnvError", names |-> <<"SERVER_ROUTE">>]
          /\ pc' = "aborted"
          /\ UNCHANGED directory
     ELSE /\ directory' = "SERVER_ROUTE"
          /\ pc' = "line172"
          /\ UNCHANGED error
  /\ UNCHANGED <<environ, output_file, listing, idx, data, df, written, opened>>
  /\ UNCHANGED docVars

\* line 172: output_file = os.path.join(env.str('DOWNLOAD_ROUTE'), ...)
ReadDownloadRoute ==
  /\ pc = "line172"
  /\ IF EnvStrRaises(environ, "DOWNLOAD_ROUTE")
     THEN /\ error' = [type |-> "EnvError", names |-> <<"DOWNLOAD_ROUTE">>]
          /\ pc' = "aborted"
          /\ UNCHANGED output_file
     ELSE /\ output_file' = "DOWNLOAD_ROUTE/datos_pdfs.xlsx"
          /\ pc' = "line176"
          /\ UNCHANGED error
  /\ UNCHANGED <<environ, directory, listing, idx, data, df, written, opened>>
  /\ UNCHANGED docVars

\* lines 176, 114, 115: process_directory starts and lists the directory
ListDirectory ==
  /\ pc = "line176"
  /\ \E l \in Listings : listing' = l
  /\ data' = <<>>
  /\ idx' = 1
  /\ pc' = "line115"
  /\ UNCHANGED <<environ, directory, output_file, df, error, written, opened>>
  /\ UNCHANGED docVars

\* lines 115-118: one entry of the listing
ProcessEntry ==
  /\ pc = "line115"
  /\ idx <= Len(listing)
  /\ LET file == listing[idx]
     IN  IF IsPdfName(file.name)
         THEN LET r == process_pdf(file)
              IN  /\ opened' = Append(opened, file.name)
                  /\ IF r.raised # "none"
                     THEN /\ error' = [type |-> r.raised, names |-> <<>>]
                          /\ pc' = "aborted"
                          /\ UNCHANGED <<data, idx>>
                     ELSE /\ data' = data \o r.rows
                          /\ idx' = idx + 1
                          /\ UNCHANGED <<error, pc>>
         ELSE /\ idx' = idx + 1
              /\ UNCHANGED <<opened, error, pc, data>>
  /\ UNCHANGED <<environ, directory, output_file, listing, df, written>>
  /\ UNCHANGED docVars

\* line 119 and the assignment of line 176
ReturnDataFrame ==
  /\ pc = "line115"
  /\ idx > Len(listing)
  /\ df' = data
  /\ pc' = "line179"
  /\ UNCHANGED <<environ, directory, output_file, listing, idx, data, error,
                 written, opened>>
  /\ UNCHANGED docVars

\* line 179: save_to_excel_with_style(df, output_file), one row per record
SaveToExcel ==
  /\ pc = "line179"
  /\ written' = df
  /\ pc' = "line180"
  /\ UNCHANGED <<environ, directory, output_file, listing, idx, data, df, error,
                 opened>>
  /\ UNCHANGED docVars

\* line 180
PrintSaved ==
  /\ pc = "line180"
  /\ pc' = "done"
  /\ UNCHANGED <<environ, directory, output_file, listing, idx, data, df, error,
                 written, opened>>
  /\ UNCHANGED docVars

Next ==
  \/ ReadServerRoute
  \/ ReadDownloadRoute
  \/ ListDirectory
  \/ ProcessEntry
  \/ ReturnDataFrame
  \/ SaveToExcel
  \/ PrintSaved

Spec == Init /\ [][Next]_vars

----------------------------------------------------------------------------
(* Bounds and inputs of process_pdf on one file *)

MaxAnnexChunks == 5
MaxHeadedChunks == 4
MaxRefChunks == 5
MaxPre == 1
MaxPost == 1

\* the sequences over S of length at most n
BSeq(S, n) == UNION { [1..k -> S] : k \in 0..n }

\* the texts of a sequence of texts, joined
RECURSIVE Flatten(_)
Flatten(chunks) ==
  IF chunks = <<>> THEN <<>> ELSE Head(chunks) \o Flatten(Tail(chunks))

\* a text with a name, a date, a subject and a reference, to go before annexes
HeaderText ==
  <<OficioNro, SP, "A", NL, "1", "5", SP, "d", "e", SP, "m", "a", "r", "z", "o", SP, "d", "e", SP, "2", "0", "2", "1", NL, AsuntoLabel, SP, "x", NL, ReferenciasLabel, SP, "B", NL>>

AnnexChunks ==
  {<<AnexosLabel>>, <<NL>>, <<"-", SP, "a">>, <<"-">>, <<SP>>, <<"b">>}

\* annex texts alone, and shorter ones after the header
AnnexTexts ==
  { Flatten(c) : c \in BSeq(AnnexChunks, MaxAnnexChunks) }
  \cup { HeaderText \o Flatten(c) : c \in BSeq(AnnexChunks, MaxHeadedChunks) }

RefChunks == {<<"A">>, <<"B">>, <<SP, "-", SP>>, <<"-", SP>>, <<NL>>}

RefTexts ==
  { <<ReferenciasLabel>> \o Flatten(c) : c \in BSeq(RefChunks, MaxRefChunks) }

DayOpts == {<<"5">>, <<"1", "5">>, <<"1", "1", "5">>}
MonthOpts ==
  { <<"e", "n", "e", "r", "o">>,
    <<"f", "e", "b", "r", "e", "r", "o">>,
    <<"m", "a", "r", "z", "o">>,
    <<"a", "b", "r", "i", "l">>,
    <<"m", "a", "y", "o">>,
    <<"j", "u", "n", "i", "o">>,
    <<"j", "u", "l", "i", "o">>,
    <<"a", "g", "o", "s", "t", "o">>,
    <<"s", "e", "p", "t", "i", "e", "m", "b", "r", "e">>,
    <<"o", "c", "t", "u", "b", "r", "e">>,
    <<"n", "o", "v", "i", "e", "m", "b", "r", "e">>,
    <<"d", "i", "c", "i", "e", "m", "b", "r", "e">>,
    <<"M", "A", "R", "Z", "O">>,
    <<"D", "i", "c", "i", "e", "m", "b", "r", "e">>,
    <<"f", "o", "o">>,
    <<"3">>,
    <<"m", "a", "r", "z", "o", "3">>,
    <<"d", "e">> }
YearOpts == {<<"2", "0", "2", "1">>, <<"2", "0", "2", "1", "5">>, <<"2", "0", "2">>}
SepOpts == {<<SP>>, <<NL>>, <<>>}
BeforeOpts == {<<>>, <<"x">>, <<"x", SP>>}
AfterOpts == {<<>>, <<NL, "1", SP, "d", "e", SP, "e", "n", "e", "r", "o", SP, "d", "e", SP, "1", "9", "9", "9", NL>>}

DateTexts ==
  { b \o d \o <<SP, "d", "e">> \o s \o m \o <<SP, "d", "e", SP>> \o y \o a :
      b \in BeforeOpts, d \in DayOpts, s \in SepOpts, m \in MonthOpts,
      y \in YearOpts, a \in AfterOpts }

\* the examples the specification gives
ExampleTexts ==
  { <<ReferenciasLabel, NL, "A", SP, "-", SP, "B", SP, "-", SP, "C", NL>>,
    <<"1", "5", SP, "d", "e", SP, "m", "a", "r", "z", "o", SP, "d", "e", SP, "2", "0", "2", "1">> }

PlainTexts ==
  AnnexTexts \cup RefTexts \cup DateTexts \cup ExampleTexts \cup {Corrupt}

\* what stands before and after a subject line: a name, a name label without
\* value, references, the references label without value, the annex label,
\* an annex section, an item, a dash without text, an empty line, and a date
\* in two halves
FrameLines ==
  { <<OficioNro, SP, "a", NL>>,
    <<OficioNro, NL>>,
    <<ReferenciasLabel, SP, "B", NL>>,
    <<ReferenciasLabel, NL>>,
    <<AnexosLabel, NL>>,
    <<AnexosLabel, NL, "-", SP, "a", NL>>,
    <<"-", SP, "a", NL>>,
    <<"-", NL>>,
    <<NL>>,
    <<"5", SP, "d", "e", SP, "m", "a", "r", "z", "o", SP, "d", "e", NL>>,
    <<"2", "0", "2", "1", NL>> }

SubjectLines ==
  { <<AsuntoLabel, SP, "x", NL>>,
    <<ASUNTOLabel, "y", SP, "z", NL>> }

FramePres == { Flatten(c) : c \in BSeq(FrameLines, MaxPre) }

FramePosts == { Flatten(c) : c \in BSeq(FrameLines, MaxPost) }

DocFile(text) == [name |-> NameLowerPdf, pages |-> text]

\* text without text[from..to]
Without(text, from, to) ==
  Slice(text, 1, from - 1) \o Slice(text, to + 1, Len(text))

----------------------------------------------------------------------------
(* process_pdf on one file, and on the file without one subject line *)

IdleScript ==
  /\ environ = {} /\ pc = "idle" /\ directory = Unset /\ output_file = Unset
  /\ listing = <<>> /\ idx = 0 /\ data = <<>> /\ df = NoFrame
  /\ error = NoError /\ written = NoFile /\ opened = <<>>

DocInit ==
  /\ IdleScript
  /\ res = Pending
  /\ res2 = Pending
  /\ cut = <<0, 0>>
  /\ \E t \in PlainTexts : doc = DocFile(t)

FrameInit ==
  /\ IdleScript
  /\ res = Pending
  /\ res2 = Pending
  /\ \E pre \in FramePres, line \in SubjectLines, post \in FramePosts :
       /\ doc = DocFile(pre \o line \o post)
       /\ cut = <<Len(pre) + 1, Len(pre) + Len(line)>>

\* process_pdf(doc)
ProcessDoc ==
  /\ res = Pending
  /\ res' = process_pdf(doc)
  /\ UNCHANGED <<doc, cut, res2>>
  /\ UNCHANGED scriptVars

\* process_pdf of the same file with the subject line taken out
ProcessDocWithoutLine ==
  /\ res # Pending
  /\ res2 = Pending
  /\ cut # <<0, 0>>
  /\ res2' = process_pdf(DocFile(Without(doc.pages, cut[1], cut[2])))
  /\ UNCHANGED <<doc, cut, res>>
  /\ UNCHANGED scriptVars

DocNext == ProcessDoc

DocSpec == DocInit /\ [][DocNext]_vars

FrameNext == ProcessDoc \/ ProcessDocWithoutLine

FrameSpec == FrameInit /\ [][FrameNext]_vars

----------------------------------------------------------------------------
(* Claims about process_directory and the script (Spec) *)

\* the name ends in ".pdf", letters in either case
EndsInDotPdf(name) ==
  LET n == Len(name)
  IN  /\ n >= 4
      /\ name[n-3] = "."
      /\ name[n-2] \in {"p", "P"}
      /\ name[n-1] \in {"d", "D"}
      /\ name[n] \in {"f", "F"}

\* the records of the entries of l whose name ends in ".pdf", in the order of l
RECURSIVE RecordsOfPdfEntries(_)
RecordsOfPdfEntries(l) ==
  IF l = <<>> THEN <<>>
  ELSE RecordsOfPdfEntries(SubSeq(l, 1, Len(l) - 1))
         \o (IF EndsInDotPdf(l[Len(l)].name) THEN process_pdf(l[Len(l)]).rows
             ELSE <<>>)

Returned == pc \in {"line179", "line180", "done"}

\* C3: process_directory returns the records of exactly the entries whose name
\* ends in ".pdf" in any case, file by file in listing order and within a file
\* in the order process_pdf gave them; the other entries are not opened and
\* add nothing.  While the loop runs, data holds that for the entries passed.
C3_DirectoryRecords ==
  /\ pc = "line115" =>
       /\ data = RecordsOfPdfEntries(SubSeq(listing, 1, idx - 1))
       /\ \A k \in 1..Len(opened) : EndsInDotPdf(opened[k])
  /\ Returned =>
       /\ df = RecordsOfPdfEntries(listing)
       /\ df = RecordsOfPdfEntries(
                 SelectSeq(listing, LAMBDA f : EndsInDotPdf(f.name)))
       /\ opened = [k \in 1..Len(opened) |->
                      SelectSeq(listing, LAMBDA f : EndsInDotPdf(f.name))[k].name]
       /\ Len(opened) = Len(SelectSeq(listing, LAMBDA f : EndsInDotPdf(f.name)))

\* C3 witness: a finished run over a listing with a lower-case, an upper-case
\* and a non-PDF name, the PDFs giving three records between them
C3_Witness ==
  /\ pc = "done"
  /\ Len(listing) = 3
  /\ listing[1].name = NameUpperPdf /\ listing[1].pages = PagesSubject
  /\ listing[2].name = NameTxt
  /\ listing[3].name = NameLowerPdf /\ listing[3].pages = PagesTwoAnnexes
  /\ Len(df) = 3
  /\ df[1].Asunto = <<"x">>
  /\ df[2].Anexo = <<"a">> /\ df[3].Anexo = <<"b">>

\* text extraction raises, or yields the empty text
FailingPdf(f) == f.pages = Corrupt \/ f.pages = <<>>

\* a PDF that process_pdf turns into records
ValidPdf(f) == ~FailingPdf(f) /\ process_pdf(f).raised = "none"

\* N valid PDFs and one failing PDF, every name ending in ".pdf"
OneFailingAmongValid(l) ==
  /\ \A k \in 1..Len(l) : EndsInDotPdf(l[k].name)
  /\ \E k \in 1..Len(l) :
       /\ FailingPdf(l[k])
       /\ \A j \in 1..Len(l) : j # k => ValidPdf(l[j])

\* the records of the valid files of l, in the order of l
RECURSIVE RecordsOfValid(_)
RecordsOfValid(l) ==
  IF l = <<>> THEN <<>>
  ELSE (IF ValidPdf(Head(l)) THEN process_pdf(Head(l)).rows ELSE <<>>)
         \o RecordsOfValid(Tail(l))

\* C4: with N valid PDFs and one PDF whose text extraction raises or yields
\* the empty text, wherever it stands in the listing, the run does not abort,
\* the step over the failing file leaves data as it was, and what is returned
\* is the records of the N valid files.
C4_FailingFileSkipped ==
  (pc \notin {"line171", "line172", "line176"} /\ OneFailingAmongValid(listing)) =>
    /\ pc # "aborted"
    /\ error = NoError
    /\ pc = "line115" => data = RecordsOfValid(SubSeq(listing, 1, idx - 1))
    /\ Returned => df = RecordsOfValid(listing)

\* C4 witness: a finished run, the unreadable file between two valid ones
C4_Witness ==
  /\ pc = "done"
  /\ Len(listing) = 3
  /\ OneFailingAmongValid(listing)
  /\ listing[2].pages = Corrupt
  /\ listing[1].pages = PagesTwoAnnexes
  /\ listing[3].pages = PagesSubject
  /\ Len(df) = 3

\* the required settings that are not set
MissingSettings == {"SERVER_ROUTE", "DOWNLOAD_ROUTE"} \ environ

\* C5 (as claimed): started with a setting missing, the script ends with one
\* error that names every missing setting, before any PDF is read and before
\* the output file is written.
C5_AllMissingNamed ==
  (MissingSettings # {} /\ pc \in {"aborted", "done"}) =>
    /\ pc = "aborted"
    /\ { error.names[k] : k \in 1..Len(error.names) } = MissingSettings
    /\ opened = <<>>
    /\ written = NoFile

\* C6 (as claimed): the script aborts only on an environment failure, before
\* the first file is processed; once files are being processed nothing in
\* them aborts it.
C6_AbortOnlyOnEnvironment ==
  pc = "aborted" => (error.type = "EnvError" /\ opened = <<>> /\ idx = 0)

----------------------------------------------------------------------------
(* Claims about process_pdf on one file (DocSpec) *)

Text == doc.pages

HasLabel(text, label) == \E p \in 1..Len(text) : text[p] = label

FirstLabel(text, label) == Least({ p \in 1..Len(text) : text[p] = label })

\* text from index from up to the first empty line or the end
UpToEmptyLine(text, from) ==
  LET js == { j \in from..Len(text) : text[j] = NL /\ At(text, j + 1) = NL }
  IN  Slice(text, from, IF js = {} THEN Len(text) ELSE Least(js) - 1)

\* the annex section as the claims word it: the text after "Anexos:" up to
\* the first blank line or the end
SectionAsClaimed(text) == UpToEmptyLine(text, FirstLabel(text, AnexosLabel) + 1)

\* the annex section: the text after "Anexos:" and the whitespace that follows
\* it, up to the next empty line or the end
SectionAfterSpace(text) ==
  UpToEmptyLine(text, SkipSpace(text, FirstLabel(text, AnexosLabel) + 1))

LineStarts(sec) == { k \in 1..Len(sec) : k = 1 \/ sec[k-1] = NL }

\* where the lines that begin with "- " start
DashSpaceLines(sec) ==
  { k \in LineStarts(sec) : sec[k] = "-" /\ At(sec, k + 1) = SP }

\* where the lines that begin with "-" start
DashLines(sec) == { k \in LineStarts(sec) : sec[k] = "-" }

\* the i-th least element of a set of integers
Nth(S, i) == CHOOSE x \in S : Cardinality({ y \in S : y < x }) = i - 1

OneRecordWithoutAnnex(r) ==
  /\ r.raised = "none"
  /\ Len(r.rows) = 1
  /\ r.rows[1].Anexo = NoEncontrado

SharedFields(rows) ==
  \A i \in 1..Len(rows) :
    /\ rows[i].Nombre = rows[1].Nombre
    /\ rows[i].Fecha = rows[1].Fecha
    /\ rows[i].Asunto = rows[1].Asunto
    /\ rows[i].Referencias = rows[1].Referencias

\* C1 (as claimed): a text without "Anexos:", or whose annex section holds no
\* item line, gives exactly one record, its annex the sentinel, when
\* process_pdf returns. The empty text is a text without "Anexos:".
C1_Original ==
  (/\ res.raised = "none"
   /\ \/ ~HasLabel(Text, AnexosLabel)
      \/ DashLines(SectionAfterSpace(Text)) = {})
  => OneRecordWithoutAnnex(res)

\* C1 (amended): a non-empty text without "Anexos:", or whose annex section
\* (after the label and the whitespace that follows it, up to the next empty
\* line or the end) holds no line beginning with "-", gives exactly one record,
\* its annex the sentinel, unless the month lookup raises.
C1_NoAnnexOneRecord ==
  (/\ res.raised = "none"
   /\ Text # Corrupt
   /\ Text # <<>>
   /\ \/ ~HasLabel(Text, AnexosLabel)
      \/ DashLines(SectionAfterSpace(Text)) = {})
  => OneRecordWithoutAnnex(res)

\* C1 witness: a label, a section of two lines, none an item, and the one
\* record with the fields of the header
C1_Witness ==
  /\ Text = HeaderText \o <<AnexosLabel, "b", NL, "b">>
  /\ OneRecordWithoutAnnex(res)
  /\ res.rows[1].Nombre = <<"A">>

\* every line of sec that begins with "-" has a character that is no
\* whitespace after the dash, on the same line
ItemsHaveText(sec) ==
  \A k \in DashLines(sec) :
    LET e == SkipSpace(sec, k + 1)
    IN  e <= Len(sec) /\ \A j \in (k+1)..(e-1) : sec[j] # NL

\* the text of the item line that starts at k: what follows the dash and the
\* whitespace after it, to the end of the line
ItemText(sec, k) == Slice(sec, SkipSpace(sec, k + 1), NextNL(sec, k) - 1)

C7_Original == res.raised = "none" => res.rows # <<>>

\* C7 (amended): the list process_pdf returns is empty exactly when the text
\* extracted from the file is empty (an unreadable file included); every
\* non-empty text it returns for gives at least one record.
C7_EmptyOnlyForEmptyText ==
  res.raised = "none" => (res.rows = <<>> <=> Text \in {<<>>, Corrupt})

\* C7 witness: a non-empty text without any field gives one record
C7_Witness ==
  /\ Text = <<NL>>
  /\ res.raised = "none"
  /\ Len(res.rows) = 1

\* two digits, a dash, two digits, a dash, four digits
IsDDMMYYYY(f) ==
  /\ Len(f) = 10
  /\ f[3] = "-" /\ f[6] = "-"
  /\ \A k \in {1, 2, 4, 5, 7, 8, 9, 10} : IsDigit(f[k])

\* C8 (as claimed): the date of every record is the sentinel or a string of
\* the form DD-MM-YYYY.
C8_DateForm ==
  res.raised = "none" =>
    \A k \in 1..Len(res.rows) :
      res.rows[k].Fecha = NoEncontrada \/ IsDDMMYYYY(res.rows[k].Fecha)


\* the references block: the text after "Referencias:" and the whitespace that
\* follows it, up to the next newline or the end
RefBlock(text) ==
  LET e == SkipSpace(text, FirstLabel(text, ReferenciasLabel) + 1)
  IN  Slice(text, e, NextNL(text, e) - 1)

\* where "- " stands in b (two of them cannot overlap)
Delims(b) == { j \in 1..(Len(b) - 1) : b[j] = "-" /\ b[j+1] = SP }

\* the i-th piece of b split on "- ", trimmed
TrimmedPiece(b, i) ==
  LET n == Cardinality(Delims(b))
      from == IF i = 1 THEN 1 ELSE Nth(Delims(b), i - 1) + 2
      to == IF i = n + 1 THEN Len(b) ELSE Nth(Delims(b), i) - 1
  IN  Strip(Slice(b, from, to))

\* the trimmed pieces of b that are not empty, in order
KeptPieces(b) ==
  SelectSeq([i \in 1..(Cardinality(Delims(b)) + 1) |-> TrimmedPiece(b, i)],
            LAMBDA x : x # <<>>)

\* the pieces with ", " between them
RECURSIVE JoinedWithComma(_)
JoinedWithComma(ps) ==
  IF Len(ps) = 0 THEN <<>>
  ELSE IF Len(ps) = 1 THEN ps[1]
  ELSE JoinedWithComma(SubSeq(ps, 1, Len(ps) - 1)) \o <<",", SP>> \o ps[Len(ps)]

\* C10 (as claimed): the references field is the sentinel when the text has no
\* "Referencias:" label, and otherwise the non-empty trimmed pieces of the
\* block joined with ", ".
C10_Original ==
  (res.raised = "none" /\ Text # Corrupt) =>
    \A k \in 1..Len(res.rows) :
      res.rows[k].Referencias =
        IF ~HasLabel(Text, ReferenciasLabel) THEN NoEncontradas
        ELSE JoinedWithComma(KeptPieces(RefBlock(Text)))

\* C10 (amended): the references field is the sentinel when the text has no
\* "Referencias:" label or when the block has no non-empty piece; otherwise it
\* is the non-empty trimmed pieces of the block, in order, joined with ", ",
\* and so never the empty string.
C10_ReferencesField ==
  (res.raised = "none" /\ Text # Corrupt) =>
    \A k \in 1..Len(res.rows) :
      /\ res.rows[k].Referencias =
           IF \/ ~HasLabel(Text, ReferenciasLabel)
              \/ KeptPieces(RefBlock(Text)) = <<>>
           THEN NoEncontradas
           ELSE JoinedWithComma(KeptPieces(RefBlock(Text)))
      /\ res.rows[k].Referencias # <<>>

\* C10 witness: the example of the specification
C10_Witness ==
  /\ Text = <<ReferenciasLabel, NL, "A", SP, "-", SP, "B", SP, "-", SP, "C", NL>>
  /\ res.raised = "none"
  /\ Len(res.rows) = 1
  /\ res.rows[1].Referencias = <<"A", ",", SP, "B", ",", SP, "C">>

----------------------------------------------------------------------------
(* Claims about the subject line (FrameSpec) *)

BeforeLine == Slice(Text, 1, cut[1] - 1)
SubjectLine == Slice(Text, cut[1], cut[2])
AfterLine == Slice(Text, cut[2] + 1, Len(Text))

\* the last character of s that is no whitespace, "" when there is none
LastVisible(s) == At(s, RStripTo(s))

\* the first character of s that is no whitespace, "" when there is none
FirstVisible(s) == At(s, LStripFrom(s))

\* r2 is r with every subject replaced by the sentinel
SameButSubject(r, r2) ==
  /\ r2.raised = r.raised
  /\ Len(r2.rows) = Len(r.rows)
  /\ \A k \in 1..Len(r.rows) :
       /\ r2.rows[k].Nombre = r.rows[k].Nombre
       /\ r2.rows[k].Fecha = r.rows[k].Fecha
       /\ r2.rows[k].Referencias = r.rows[k].Referencias
       /\ r2.rows[k].Anexo = r.rows[k].Anexo
       /\ r2.rows[k].Asunto = NoEncontrado

\* a rule whose pattern does not match gives its own sentinel, and the date
\* rule then does not raise
MissGivesSentinel(text, r) ==
  LET noName == ReSearch(NamePattern, text) = NoMatch
      noDate == ReSearch(DatePattern, text) = NoMatch
      noSubject == ReSearch(SubjectPattern, text) = NoMatch
      noReferences == ReferencesSearch(text) = NoMatch
      noAnnexes == AnnexesSectionSearch(text) = NoMatch
  IN  /\ noDate => r.raised = "none"
      /\ noAnnexes => Len(r.rows) <= 1
      /\ \A k \in 1..Len(r.rows) :
           /\ noName => r.rows[k].Nombre = NoEncontrado
           /\ noDate => r.rows[k].Fecha = NoEncontrada
           /\ noSubject => r.rows[k].Asunto = NoEncontrado
           /\ noReferences => r.rows[k].Referencias = NoEncontradas
           /\ noAnnexes => r.rows[k].Anexo = NoEncontrado

PlainSubjectLine(line) ==
  /\ Len(line) >= 3
  /\ line[1] \in SubjectLabels
  /\ line[Len(line)] = NL
  /\ \A k \in 2..(Len(line) - 1) : IsLetter(line[k]) \/ line[k] = SP
  /\ \E k \in 2..(Len(line) - 1) : IsLetter(line[k])

\* The line stands alone: it starts a line and is the only subject line, text
\* is left without it, it is not the value of a label or of a dash left
\* without one (the last visible character before it is none of these), and
\* it does not stand inside a date (a word character before it and one after).
LineStandsAlone ==
  /\ BeforeLine = <<>> \/ BeforeLine[Len(BeforeLine)] = NL
  /\ \A l \in SubjectLabels : ~HasLabel(BeforeLine \o AfterLine, l)
  /\ BeforeLine \o AfterLine # <<>>
  /\ LastVisible(BeforeLine) \notin
       {OficioNro, MemorandoNro, ReferenciasLabel, AnexosLabel, "-"}
  /\ ~(IsWord(LastVisible(BeforeLine)) /\ IsWord(FirstVisible(AfterLine)))

====
